---- MODULE Spec2Model ----
(***************************************************************************)
(* Model of the fantasy-sports Firefox extension: the popup (App,          *)
(* MessageForm, PageInfo, EspnLeagueData), the content script, the         *)
(* background script and the ESPN fetch proxy (espnApiService,             *)
(* espnMessageHandler), with the message bus that connects them.           *)
(*                                                                         *)
(* JavaScript strings typed by a user are sequences of one-character       *)
(* strings, so that trim() can be computed; the JavaScript value           *)
(* undefined is the one-element sequence Undefined.                        *)
(***************************************************************************)
EXTENDS Integers, Sequences, FiniteSets, TLC

\* ---------------------------------------------------------------- bounds
MaxLen == 2
MaxMounts == 2
MaxSends == 2
MaxNotifs == 2
MaxClock == 1
MaxOther == 1
MaxFetches == 2

\* ------------------------------------------------------- strings, values
Chars == {" ", "a"}
Undefined == <<"undefined">>
Strings == UNION {[1..n -> Chars] : n \in 0..MaxLen}

RECURSIVE TrimStart(_)
TrimStart(s) ==
  IF s # <<>> /\ Head(s) = " " THEN TrimStart(Tail(s)) ELSE s

RECURSIVE TrimEnd(_)
TrimEnd(s) ==
  IF s # <<>> /\ s[Len(s)] = " " THEN TrimEnd(SubSeq(s, 1, Len(s) - 1)) ELSE s

\* String.prototype.trim
Trim(s) == TrimEnd(TrimStart(s))

\* JavaScript truthiness of a string or undefined
Truthy(v) == v # Undefined /\ v # <<>>

\* the tabs of the browser: tab 1 runs the content script, tab 2 is a page
\* the content script is not injected into
Tabs == {1, 2}
ContentTab == 1
\* what tabs.query({active: true, currentWindow: true}) can resolve to
TabResults == {<<>>} \cup {<<t>> : t \in Tabs}

\* what a click on the page reports: `Clicked: ${tagName}${className}`
\* what tabs.query can resolve to when the API gives more than one tab
TabLists == TabResults \cup {<<s, t>> : s, t \in Tabs}

ClickData == {<<"Clicked: ", "DIV">>, <<"Clicked: ", "A", ".", "link">>}

NoReply == [kind |-> "none"]

\* the value of message.type when the message has no type field
NoType == "(undefined)"

\* types of runtime messages that are not the notification type, among them
\* a near miss and a missing type
OtherTypes == {"UNKNOWN_TYPE", "FROM_POPUP", "from_content", NoType}

\* types of runtime messages the ESPN listener does not handle
OtherBackgroundTypes == {"OTHER_MESSAGE_TYPE", "FROM_CONTENT", NoType}

\* types of tab messages the content script has no branch for
UnknownTabTypes == {"WRONG_TYPE", "FROM_CONTENT", "from_popup", NoType}

VARIABLES
  bgListeners,    \* listeners registered on runtime.onMessage in the background
  mounted,        \* the popup's App is mounted
  gen,            \* number of times the popup was opened
  popupListeners, \* listener references registered by the popup
  listener,       \* the messageListener of App's latest effect run (0: none)
  messages,       \* App state: the display list, most recent first
  received,       \* history: data of the notifications the listener got since mount
  message,        \* MessageForm state: the text input
  formLoading,    \* the isLoading prop MessageForm was last rendered with
  lastSubmit,     \* history: the text handleSubmit ran on and its calls of
                  \* onSend, since the input last changed
  sendStatus,     \* sendMessageMutation status
  piStatus,       \* pageInfo query status
  pageInfo,       \* pageInfo query data
  reqs,           \* tab requests under way, one per queryFn / mutationFn
                  \* call of the popup or tabs.sendMessage of another
                  \* context (gen 0), and the settled pageInfo query
  sends,          \* number of mutate() calls of sendMessageMutation so far
  notifQ,         \* runtime messages in flight to the popup and background
  notifSent,      \* number of runtime messages sent to them so far
  notifResponses, \* sendResponse invocations made for FROM_CONTENT messages
  undelivered,    \* history: notifications delivered since the popup last
                  \* closed that found no popup listener
  ignored,        \* history: messages of another type than FROM_CONTENT the
                  \* popup's listener ran on since mount
  now,            \* Date.now()
  page,           \* the document of tab 1: head and body present, the style
                  \* element injected, notification divs shown and leaving
  leagueId,       \* EspnLeagueData state: the league id input
  leagueData,     \* EspnLeagueData state: the data of the last success
  espnStatus,     \* status of the component's mutation
  espnFormLoading, \* isPending as EspnLeagueData has rendered it
  espnError,      \* mutation.error.message
  ereqs           \* runtime messages to the background that await a
                  \* response: ESPN_FETCH_LEAGUE_DATA requests and others

msgVars == <<mounted, gen, popupListeners, listener, messages, received,
             message, formLoading, lastSubmit, sendStatus, piStatus,
             pageInfo, reqs, sends, notifQ, notifSent, notifResponses,
             undelivered, ignored, now, page>>

espnVars == <<leagueId, leagueData, espnStatus, espnError, espnFormLoading,
              ereqs>>

vars == <<bgListeners, msgVars, espnVars>>

\* ------------------------------------------------------------ background
\* background.js: the listener logs and returns true; it never calls
\* sendResponse
BackgroundListener(m) == [ret |-> TRUE, responses |-> 0]

\* background.js evaluated at extension start: one onMessage listener
BackgroundLoad ==
  /\ bgListeners = {}
  /\ bgListeners' = {"background"}
  /\ UNCHANGED <<msgVars, espnVars>>

\* ------------------------------------------------------------ popup: App
\* handleSubmit has not run on the input
NoSubmit == [text |-> Undefined, onSend |-> 0]

\* PageInfo component: which of the three states is rendered
PageInfoView(isLoading, info) ==
  IF isLoading THEN "loading"
  ELSE IF info = Undefined THEN "error"
  ELSE "data"

\* loading taken to mean that there is no data
IsLoadingNoData == pageInfo = Undefined

\* useQuery: isLoading
IsLoading == piStatus = "pending"

\* the retry default of the QueryClient (main.jsx: retry: 1) in force
PageInfoRetryDefault == 1

\* retry option of the pageInfo query (App: retry: false), which overrides
\* the default of the QueryClient
PageInfoRetry == 0

\* a queryFn / mutationFn call of popup g, awaiting tabs.query: queryCalls
\* counts the calls of tabs.query, tabs is what the query resolved to,
\* sendCalls counts the calls of tabs.sendMessage, to is the tab id passed to
\* it (0 before the call), ticket the envelope's place among the envelopes
\* on their way to the content script (0: not on its way), calls the
\* invocations of sendResponse by the content script
NewRequest(type, data, g) ==
  [type |-> type, data |-> data, gen |-> g, stage |-> "query",
   queryCalls |-> 1, tabs |-> Undefined, sendCalls |-> 0, to |-> 0,
   ticket |-> 0, envelope |-> NoReply, calls |-> 0, reply |-> NoReply,
   failures |-> 0]

\* the requests whose envelope is on its way to the content script
InFlight(rs) ==
  {k \in DOMAIN rs : rs[k].stage = "sent" /\ rs[k].to = ContentTab}

\* tabs.sendMessage puts the envelope behind those already on their way to
\* the same tab: messages between two ends are delivered in the order sent
NextTicket(rs, tab) ==
  IF tab # ContentTab THEN 0
  ELSE 1 + Cardinality(InFlight(rs))

\* the envelope of request i is the next one the content script receives
IsNextDelivery(rs, i) ==
  \A k \in InFlight(rs) : rs[k].ticket >= rs[i].ticket

\* the tickets after the envelope with ticket t has been delivered
Delivered(rs, t) ==
  [k \in DOMAIN rs |->
     IF rs[k].ticket > t THEN [rs[k] EXCEPT !.ticket = @ - 1] ELSE rs[k]]

\* browser.runtime.onMessage.addListener
AddListener(ls, ref) == ls \cup {ref}

\* removeListener called with a reference that is not the registered one
RemoveListenerOther(ls, ref) == ls \ {ref + 1}

\* browser.runtime.onMessage.removeListener
RemoveListener(ls, ref) == ls \ {ref}

\* the function object messageListener created by the run-th run of the
\* effect of the g-th App: every run of the effect creates a new function
ListenerRef(g, run) == 2 * g + run - 1

\* the effect run twice, its cleanup removing nothing
StrictEffectsNoCleanup(ls, g) ==
  AddListener(AddListener(ls, ListenerRef(g, 1)), ListenerRef(g, 2))

\* React.StrictMode in a development build: on mount the effect runs, its
\* cleanup runs, and the effect runs again, all in the one commit
StrictEffects(ls, g) ==
  AddListener(RemoveListener(AddListener(ls, ListenerRef(g, 1)),
                             ListenerRef(g, 1)),
              ListenerRef(g, 2))

\* the popup opens in a development build, under React.StrictMode
MountStrict ==
  /\ ~mounted
  /\ gen < MaxMounts
  /\ mounted' = TRUE
  /\ gen' = gen + 1
  /\ messages' = <<>>
  /\ received' = <<>>
  /\ message' = <<>>
  /\ sendStatus' = "idle"
  /\ piStatus' = "pending"
  /\ pageInfo' = Undefined
  /\ reqs' = Append(reqs, NewRequest("GET_PAGE_INFO", Undefined, gen + 1))
  /\ popupListeners' = StrictEffects(popupListeners, gen + 1)
  /\ listener' = ListenerRef(gen + 1, 2)
  /\ ignored' = 0
  /\ formLoading' = FALSE
  /\ lastSubmit' = NoSubmit
  /\ UNCHANGED <<bgListeners, sends, notifQ, notifSent, notifResponses, now,
                 page, undelivered, espnVars>>

\* the popup opens: main.jsx renders App; useState initial values, the
\* pageInfo query starts, the effect registers messageListener
Mount ==
  /\ ~mounted
  /\ gen < MaxMounts
  /\ mounted' = TRUE
  /\ gen' = gen + 1
  /\ messages' = <<>>
  /\ received' = <<>>
  /\ message' = <<>>
  /\ sendStatus' = "idle"
  /\ piStatus' = "pending"
  /\ pageInfo' = Undefined
  /\ reqs' = Append(reqs, NewRequest("GET_PAGE_INFO", Undefined, gen + 1))
  /\ popupListeners' = AddListener(popupListeners, ListenerRef(gen + 1, 1))
  /\ listener' = ListenerRef(gen + 1, 1)
  /\ ignored' = 0
  /\ formLoading' = FALSE
  /\ lastSubmit' = NoSubmit
  /\ UNCHANGED <<bgListeners, sends, notifQ, notifSent, notifResponses, now,
                 page, undelivered, espnVars>>

\* the popup closes: the effect's cleanup removes messageListener; the
\* component state and the pending promises of the popup are discarded; an
\* envelope already on its way to the content script is still delivered,
\* and the requests of other contexts are not affected
Unmount ==
  /\ mounted
  /\ mounted' = FALSE
  /\ popupListeners' = RemoveListener(popupListeners, listener)
  /\ listener' = 0
  /\ message' = <<>>
  /\ sendStatus' = "idle"
  /\ piStatus' = "pending"
  /\ pageInfo' = Undefined
  /\ reqs' = SelectSeq(reqs, LAMBDA r :
                \/ r.gen = 0
                \/ r.stage = "sent" /\ r.to = ContentTab)
  /\ undelivered' = 0
  /\ ignored' = 0
  /\ formLoading' = FALSE
  /\ lastSubmit' = NoSubmit
  /\ UNCHANGED <<bgListeners, gen, messages, received, sends, notifQ,
                 notifSent, notifResponses, now, page, espnVars>>

\* messageListener adding the new entry at the end of the list
MessageListenerAppends(list, m, clock) ==
  IF m.type = "FROM_CONTENT"
  THEN list \o <<[id |-> clock, timestamp |-> clock, content |-> m.data,
                  sender |-> "content"]>>
  ELSE list

\* messageListener without the test of the type
MessageListenerAnyType(list, m, clock) ==
  <<[id |-> clock, timestamp |-> clock, content |-> m.data,
     sender |-> "content"]>> \o list

\* App messageListener: the list after the listener has run on message m
MessageListener(list, m, clock) ==
  IF m.type = "FROM_CONTENT"
  THEN <<[id |-> clock, timestamp |-> clock, content |-> m.data,
          sender |-> "content"]>> \o list
  ELSE list

\* MessagesTable: the text of the Message cell of an entry; React renders
\* nothing for a cell value of undefined
CellText(entry) == IF entry.content = Undefined THEN <<>> ELSE entry.content

\* ------------------------------------------------------ popup: MessageForm
\* MessageForm: the input and the button are disabled while isLoading
FormDisabled == formLoading

\* App renders again after the status of sendMessageMutation has changed
\* and passes isLoading={sendMessageMutation.isPending} to MessageForm
Rerender ==
  /\ mounted
  /\ formLoading # (sendStatus = "pending")
  /\ formLoading' = (sendStatus = "pending")
  /\ UNCHANGED <<bgListeners, mounted, gen, popupListeners, messages,
                 received, message, lastSubmit, sendStatus, piStatus,
                 pageInfo, reqs, sends, notifQ, notifSent, notifResponses,
                 now, page, undelivered, ignored, espnVars, listener>>

\* onChange of the text input
TypeMessage(s) ==
  /\ mounted
  /\ ~FormDisabled
  /\ message' = s
  /\ lastSubmit' = NoSubmit
  /\ UNCHANGED <<bgListeners, mounted, gen, popupListeners, messages,
                 received, sendStatus, piStatus, pageInfo, reqs, sends,
                 notifQ, notifSent, notifResponses, now, page, undelivered,
                 espnVars, ignored, formLoading, listener>>

\* handleSubmit calling onSend whatever the text
CanSendAlways(text) == TRUE

\* handleSubmit: if (message.trim())
CanSend(text) == Truthy(Trim(text))

\* what mutationFn puts in the envelope for the text the form hands to onSend
EnvelopeData(text) == text

\* MessageForm handleSubmit -> App handleSendMessage -> mutate: the
\* mutationFn starts with tabs.query
SubmitMessage ==
  /\ mounted
  /\ ~FormDisabled
  /\ sends < MaxSends
  /\ IF CanSend(message)
     THEN /\ reqs' = Append(reqs, NewRequest("FROM_POPUP", message, gen))
          /\ sends' = sends + 1
          /\ sendStatus' = "pending"
          /\ message' = <<>>
          /\ lastSubmit' = [text |-> message, onSend |-> 1]
     ELSE /\ lastSubmit' = [text |-> message, onSend |-> 0]
          /\ UNCHANGED <<reqs, sends, sendStatus, message>>
  /\ UNCHANGED <<bgListeners, mounted, gen, popupListeners, messages,
                 received, piStatus, pageInfo, notifQ, notifSent,
                 notifResponses, now, page, undelivered, espnVars, ignored,
                 formLoading, listener>>

\* ---------------------------------------------------- popup: request client
\* the popup that issued request i is still open
Alive(i) == mounted /\ reqs[i].gen = gen

\* the observer of sendMessageMutation follows the latest mutate() call
IsLatestSend(i) ==
  \A j \in DOMAIN reqs :
    (reqs[j].type = "FROM_POPUP" /\ reqs[j].gen = reqs[i].gen) => j <= i

\* the sequence without its i-th element
Remove(seq, i) == SubSeq(seq, 1, i - 1) \o SubSeq(seq, i + 1, Len(seq))

\* a settled pageInfo query: what remains is how it ended
Settled(r, stage) ==
  [r EXCEPT !.stage = stage, !.envelope = NoReply, !.reply = NoReply]

\* the promise of request i settles in the popup: r is the request's record
\* so far, ok tells fulfilled from rejected, value is the fulfilment value.
\* useQuery retries a failed queryFn up to PageInfoRetry times; useMutation
\* does not retry. A settled mutation leaves nothing behind but its status.
Settle(i, r, ok, value) ==
  IF r.type = "GET_PAGE_INFO"
  THEN /\ UNCHANGED sendStatus
       /\ IF ok
          THEN /\ piStatus' = "success"
               /\ pageInfo' = value
               /\ reqs' = [reqs EXCEPT ![i] = Settled(r, "done")]
          ELSE IF r.failures < PageInfoRetry
          THEN /\ reqs' = [reqs EXCEPT ![i] =
                             [r EXCEPT !.stage = "query", !.failures = @ + 1,
                                       !.queryCalls = @ + 1]]
               /\ UNCHANGED <<piStatus, pageInfo>>
          ELSE /\ piStatus' = "error"
               /\ reqs' = [reqs EXCEPT ![i] =
                             Settled([r EXCEPT !.failures = @ + 1], "failed")]
               /\ UNCHANGED pageInfo
  ELSE /\ UNCHANGED <<piStatus, pageInfo>>
       /\ reqs' = Remove(reqs, i)
       /\ sendStatus' = IF ~IsLatestSend(i) THEN sendStatus
                        ELSE IF ok THEN "success" ELSE "error"

\* the envelope queryFn / mutationFn passes to tabs.sendMessage
Envelope(r) ==
  IF r.type = "FROM_POPUP"
  THEN [type |-> "FROM_POPUP", data |-> EnvelopeData(r.data)]
  ELSE [type |-> "GET_PAGE_INFO"]

\* the function reading the tab id with tabs[0]?.id and sending nothing
\* when there is no tab
TabsQueryResolveOptional(i, tabs) ==
  /\ reqs[i].stage = "query"
  /\ Alive(i)
  /\ LET r == [reqs[i] EXCEPT !.tabs = tabs] IN
     IF tabs = <<>>
     THEN Settle(i, r, TRUE, Undefined)
     ELSE /\ reqs' = [reqs EXCEPT ![i] =
                        [r EXCEPT !.stage = "sent", !.envelope = Envelope(r),
                                  !.sendCalls = @ + 1, !.to = tabs[1],
                                  !.ticket = NextTicket(reqs, tabs[1])]]
          /\ UNCHANGED <<sendStatus, piStatus, pageInfo>>
  /\ UNCHANGED <<bgListeners, mounted, gen, popupListeners, messages,
                 received, message, formLoading, lastSubmit, sends, notifQ,
                 notifSent, notifResponses, now, page, undelivered, ignored,
                 espnVars, listener>>

\* the function sending to the tab an earlier request has used
TabsQueryResolveRemembered(i, tabs) ==
  /\ reqs[i].stage = "query"
  /\ Alive(i)
  /\ LET r == [reqs[i] EXCEPT !.tabs = tabs] IN
     IF tabs = <<>>
     THEN Settle(i, r, FALSE, Undefined)
     ELSE /\ reqs' = [reqs EXCEPT ![i] =
                        [r EXCEPT !.stage = "sent", !.envelope = Envelope(r),
                                  !.sendCalls = @ + 1,
                                  !.to = IF i > 1 /\ reqs[1].to # 0
                                         THEN reqs[1].to ELSE tabs[1],
                                  !.ticket =
                                    NextTicket(reqs,
                                      IF i > 1 /\ reqs[1].to # 0
                                      THEN reqs[1].to ELSE tabs[1])]]
          /\ UNCHANGED <<sendStatus, piStatus, pageInfo>>
  /\ UNCHANGED <<bgListeners, mounted, gen, popupListeners, messages,
                 received, message, sends, notifQ, notifSent, notifResponses,
                 now, page, undelivered, espnVars, ignored, formLoading,
                 lastSubmit, listener>>

\* tabs.query resolves and the function continues: tabs[0].id throws a
\* TypeError when there is no tab, else the envelope goes to tabs[0]
TabsQueryResolve(i, tabs) ==
  /\ reqs[i].stage = "query"
  /\ Alive(i)
  /\ LET r == [reqs[i] EXCEPT !.tabs = tabs] IN
     IF tabs = <<>>
     THEN Settle(i, r, FALSE, Undefined)
     ELSE /\ reqs' = [reqs EXCEPT ![i] =
                        [r EXCEPT !.stage = "sent", !.envelope = Envelope(r),
                                  !.sendCalls = @ + 1, !.to = tabs[1],
                                  !.ticket = NextTicket(reqs, tabs[1])]]
          /\ UNCHANGED <<sendStatus, piStatus, pageInfo>>
  /\ UNCHANGED <<bgListeners, mounted, gen, popupListeners, messages,
                 received, message, sends, notifQ, notifSent, notifResponses,
                 now, page, undelivered, espnVars, ignored, formLoading,
                 lastSubmit, listener>>

\* tabs.sendMessage to a tab without the content script rejects
TransportError(i) ==
  /\ reqs[i].stage = "sent"
  /\ reqs[i].to # ContentTab
  /\ Alive(i)
  /\ Settle(i, reqs[i], FALSE, Undefined)
  /\ UNCHANGED <<bgListeners, mounted, gen, popupListeners, messages,
                 received, message, sends, notifQ, notifSent, notifResponses,
                 now, page, undelivered, espnVars, ignored, formLoading,
                 lastSubmit, listener>>

\* the popup putting the echo of a reply into the display list
ReplyArrivesListed(i) ==
  /\ reqs[i].stage = "replied"
  /\ Alive(i)
  /\ Settle(i, reqs[i], TRUE, reqs[i].reply)
  /\ messages' = IF reqs[i].type = "FROM_POPUP"
                 THEN <<[id |-> now, timestamp |-> now,
                         content |-> reqs[i].reply.echo,
                         sender |-> "content"]>> \o messages
                 ELSE messages
  /\ UNCHANGED <<bgListeners, mounted, gen, popupListeners, received, message,
                 sends, notifQ, notifSent, notifResponses, now, page,
                 undelivered, espnVars, ignored, formLoading, lastSubmit,
                 listener>>

\* the reply of the content script reaches the popup
ReplyArrives(i) ==
  /\ reqs[i].stage = "replied"
  /\ Alive(i)
  /\ Settle(i, reqs[i], TRUE, reqs[i].reply)
  /\ UNCHANGED <<bgListeners, mounted, gen, popupListeners, messages,
                 received, message, sends, notifQ, notifSent, notifResponses,
                 now, page, undelivered, espnVars, ignored, formLoading,
                 lastSubmit, listener>>

\* the listener threw: the runtime settles the sender's promise without a
\* reply, fulfilled with undefined or rejected
HostNoResponse(i, ok) ==
  /\ reqs[i].stage = "threw"
  /\ Alive(i)
  /\ Settle(i, reqs[i], ok, Undefined)
  /\ UNCHANGED <<bgListeners, mounted, gen, popupListeners, messages,
                 received, message, sends, notifQ, notifSent, notifResponses,
                 now, page, undelivered, espnVars, ignored, formLoading,
                 lastSubmit, listener>>

\* --------------------------------------------------------- content script
\* document.querySelectorAll('*').length
ElementCount(p) ==
  1 + (IF p.head THEN 1 ELSE 0) + (IF p.body THEN 1 ELSE 0)
    + (IF p.style THEN 1 ELSE 0) + p.shown + p.leaving

\* displayMessageOnPage: appends the style element to document.head once and
\* the div to document.body; a null head or body makes appendChild throw
DisplayMessageOnPage(p) ==
  IF ~p.style /\ ~p.head
  THEN [threw |-> TRUE, page |-> p]
  ELSE LET p1 == [p EXCEPT !.style = TRUE] IN
       IF ~p1.body
       THEN [threw |-> TRUE, page |-> p1]
       ELSE [threw |-> FALSE, page |-> [p1 EXCEPT !.shown = @ + 1]]

\* the listener with the page-info reply as the default branch
ContentListenerDefaultReply(m, p) ==
  IF m.type = "FROM_POPUP"
  THEN LET d == DisplayMessageOnPage(p) IN
       IF d.threw
       THEN [threw |-> TRUE, page |-> d.page, responses |-> <<>>]
       ELSE [threw |-> FALSE, page |-> d.page,
             responses |-> <<[success |-> TRUE, echo |-> m.data]>>]
  ELSE [threw |-> FALSE, page |-> p,
        responses |-> <<[url |-> "url", title |-> "title",
                         elementCount |-> ElementCount(p)]>>]

\* the onMessage listener of the content script: what it does to the page,
\* the replies it passes to sendResponse, and whether it threw before
\* returning true
ContentListener(m, p) ==
  IF m.type = "FROM_POPUP"
  THEN LET d == DisplayMessageOnPage(p) IN
       IF d.threw
       THEN [threw |-> TRUE, page |-> d.page, responses |-> <<>>]
       ELSE [threw |-> FALSE, page |-> d.page,
             responses |-> <<[success |-> TRUE, echo |-> m.data]>>]
  ELSE IF m.type = "GET_PAGE_INFO"
  THEN [threw |-> FALSE, page |-> p,
        responses |-> <<[url |-> "url", title |-> "title",
                         elementCount |-> ElementCount(p)]>>]
  ELSE [threw |-> FALSE, page |-> p, responses |-> <<>>]

\* the envelope of request i is delivered to the content script of the tab;
\* a reply to a popup that has closed is discarded
ContentReceive(i) ==
  /\ reqs[i].stage = "sent"
  /\ reqs[i].to = ContentTab
  /\ IsNextDelivery(reqs, i)
  /\ LET out == ContentListener(reqs[i].envelope, page)
         rs == Delivered(reqs, reqs[i].ticket)
         r == [reqs[i] EXCEPT !.calls = Len(out.responses), !.ticket = 0] IN
     /\ page' = out.page
     /\ reqs' = IF ~Alive(i) /\ reqs[i].gen # 0 THEN Remove(rs, i)
                ELSE [rs EXCEPT ![i] =
                        IF out.threw THEN [r EXCEPT !.stage = "threw"]
                        ELSE IF out.responses = <<>>
                        THEN [r EXCEPT !.stage = "open"]
                        ELSE [r EXCEPT !.stage = "replied",
                                       !.reply = out.responses[1]]]
  /\ UNCHANGED <<bgListeners, mounted, gen, popupListeners, messages,
                 received, message, sendStatus, piStatus, pageInfo, sends,
                 notifQ, notifSent, notifResponses, now, undelivered,
                 espnVars, ignored, formLoading, lastSubmit, listener>>

\* the first timer of a notification div (3000 ms): reverse animation
DivTimeout ==
  /\ page.shown > 0
  /\ page' = [page EXCEPT !.shown = @ - 1, !.leaving = @ + 1]
  /\ UNCHANGED <<bgListeners, mounted, gen, popupListeners, messages,
                 received, message, sendStatus, piStatus, pageInfo, reqs,
                 sends, notifQ, notifSent, notifResponses, now, undelivered,
                 espnVars, ignored, formLoading, lastSubmit, listener>>

\* the second timer (300 ms): div.remove()
DivRemove ==
  /\ page.leaving > 0
  /\ page' = [page EXCEPT !.leaving = @ - 1]
  /\ UNCHANGED <<bgListeners, mounted, gen, popupListeners, messages,
                 received, message, sendStatus, piStatus, pageInfo, reqs,
                 sends, notifQ, notifSent, notifResponses, now, undelivered,
                 espnVars, ignored, formLoading, lastSubmit, listener>>

\* an extension context other than the popup (gen 0) calls tabs.sendMessage
\* with a message of a type the content script has no branch for
OtherTabMessage(t) ==
  /\ Cardinality({i \in DOMAIN reqs : reqs[i].gen = 0}) < MaxOther
  /\ reqs' = Append(reqs,
       [NewRequest(t, <<"Should not be logged">>, 0) EXCEPT
          !.stage = "sent", !.tabs = <<ContentTab>>, !.sendCalls = 1,
          !.to = ContentTab, !.ticket = NextTicket(reqs, ContentTab),
          !.envelope = [type |-> t, data |-> <<"Should not be logged">>]])
  /\ UNCHANGED <<bgListeners, mounted, gen, popupListeners, messages,
                 received, message, sendStatus, piStatus, pageInfo, sends,
                 notifQ, notifSent, notifResponses, now, page, undelivered,
                 espnVars, ignored, formLoading, lastSubmit, listener>>

\* click listener -> sendDataToPopup: a FROM_CONTENT message on the bus
Click(d) ==
  /\ notifSent < MaxNotifs
  /\ notifSent' = notifSent + 1
  /\ notifQ' = Append(notifQ, [type |-> "FROM_CONTENT", data |-> d])
  /\ UNCHANGED <<bgListeners, mounted, gen, popupListeners, messages,
                 received, message, sendStatus, piStatus, pageInfo, reqs,
                 sends, notifResponses, now, page, undelivered, espnVars,
                 ignored, formLoading, lastSubmit, listener>>

\* an extension context sends a runtime message that is not a notification
\* of the content script
OtherMessage(t) ==
  /\ notifSent < MaxNotifs
  /\ notifSent' = notifSent + 1
  /\ notifQ' = Append(notifQ, [type |-> t, data |-> <<"Should be ignored">>])
  /\ UNCHANGED <<bgListeners, mounted, gen, popupListeners, messages,
                 received, message, sendStatus, piStatus, pageInfo, reqs,
                 sends, notifResponses, now, page, undelivered, espnVars,
                 ignored, formLoading, lastSubmit, listener>>

\* an extension context sends a FROM_CONTENT message without a data field
BareNotification ==
  /\ notifSent < MaxNotifs
  /\ notifSent' = notifSent + 1
  /\ notifQ' = Append(notifQ, [type |-> "FROM_CONTENT", data |-> Undefined])
  /\ UNCHANGED <<bgListeners, mounted, gen, popupListeners, messages,
                 received, message, sendStatus, piStatus, pageInfo, reqs,
                 sends, notifResponses, now, page, undelivered, espnVars,
                 ignored, formLoading, lastSubmit, listener>>

\* ------------------------------------------------------------ runtime bus
RECURSIVE ListenerRuns(_, _, _, _)
\* messageListener invoked once per registered reference
ListenerRuns(list, m, clock, n) ==
  IF n = 0 THEN list
  ELSE ListenerRuns(MessageListener(list, m, clock), m, clock, n - 1)

\* sendResponse invocations of the background's listeners for message m
BackgroundResponses(m) ==
  IF "background" \in bgListeners THEN BackgroundListener(m).responses ELSE 0

\* runtime.sendMessage delivers the oldest message on the bus to the
\* listeners of the background and of the popup
DeliverNotification ==
  /\ notifQ # <<>>
  /\ LET m == Head(notifQ)
         n == Cardinality(popupListeners)
         isNotification == m.type = "FROM_CONTENT" IN
     /\ notifQ' = Tail(notifQ)
     /\ messages' = ListenerRuns(messages, m, now, n)
     /\ received' = IF n > 0 /\ isNotification THEN Append(received, m.data)
                    ELSE received
     /\ ignored' = IF n > 0 /\ ~isNotification THEN ignored + 1 ELSE ignored
     /\ undelivered' = IF n = 0 THEN undelivered + 1 ELSE undelivered
     /\ notifResponses' = notifResponses + BackgroundResponses(m)
  /\ UNCHANGED <<bgListeners, mounted, gen, popupListeners, message,
                 sendStatus, piStatus, pageInfo, reqs, sends, notifSent, now,
                 page, espnVars, formLoading, lastSubmit, listener>>

\* time passes
Tick ==
  /\ now < MaxClock
  /\ now' = now + 1
  /\ UNCHANGED <<bgListeners, mounted, gen, popupListeners, messages,
                 received, message, sendStatus, piStatus, pageInfo, reqs,
                 sends, notifQ, notifSent, notifResponses, page, undelivered,
                 espnVars, ignored, formLoading, lastSubmit, listener>>

\* ------------------------------------------------------- espnApiService
\* ESPN_API_CONFIG
BASE_URL == "https://lm-api-reads.fantasy.espn.com"
GAME == "ffl"
SEASON == 2025
SEGMENT == 0

RECURSIVE Str(_)
\* the JavaScript string of a sequence of characters
Str(s) == IF s = <<>> THEN "" ELSE Head(s) \o Str(Tail(s))

\* the template filled with the trimmed league id
BuildEspnApiUrlTrimmed(id) ==
  BASE_URL \o "/apis/v3/games/" \o GAME \o "/seasons/" \o ToString(SEASON)
    \o "/segments/" \o ToString(SEGMENT) \o "/leagues/" \o Str(Trim(id))

\* buildEspnApiUrl: the template literal
BuildEspnApiUrl(id) ==
  BASE_URL \o "/apis/v3/games/" \o GAME \o "/seasons/" \o ToString(SEASON)
    \o "/segments/" \o ToString(SEGMENT) \o "/leagues/" \o Str(id)

\* generateFetchCode: the code string, as the request it makes
GenerateFetchCode(url) == [url |-> url, credentials |-> "include"]

\* new Error(`${prefix}${error.message}`): messages are sequences of pieces
WrapError(prefix, msg) == <<prefix>> \o msg

\* response.ok
ResponseOk(status) == status >= 200 /\ status <= 299

\* what the upstream fetch can do in the page: fail on the network, or
\* answer with a status and a body that is JSON or not
HttpStatuses == {200, 404, 500}
\* the body of a response: a JSON object, the JSON text null, or no JSON
Bodies == {"object", "null", "invalid"}
FetchOutcomes ==
  {[kind |-> "network", status |-> 0, body |-> "invalid"]} \cup
  [kind : {"http"}, status : HttpStatuses, body : Bodies]
LeagueJson == <<"{\"id\": \"59986587\"}">>
\* the JavaScript value null
Null == <<"null">>
\* response.json()
ParseJson(body) == IF body = "null" THEN Null ELSE LeagueJson

\* the generated code without the response.ok check
PageScriptNoStatusCheck(o) ==
  IF o.kind = "network"
  THEN [ok |-> FALSE,
        error |-> WrapError("Fetch failed: ",
                            <<"NetworkError when attempting to fetch resource.">>)]
  ELSE IF o.body = "invalid"
  THEN [ok |-> FALSE,
        error |-> WrapError("Fetch failed: ", <<"JSON.parse: unexpected character">>)]
  ELSE [ok |-> TRUE, value |-> ParseJson(o.body)]

\* the generated code run in the page: the promise of the async function
PageScript(o) ==
  IF o.kind = "network"
  THEN [ok |-> FALSE,
        error |-> WrapError("Fetch failed: ",
                            <<"NetworkError when attempting to fetch resource.">>)]
  ELSE IF ~ResponseOk(o.status)
  THEN [ok |-> FALSE,
        error |-> WrapError("Fetch failed: ",
                            <<"HTTP error! status: ", ToString(o.status)>>)]
  ELSE IF o.body = "invalid"
  THEN [ok |-> FALSE,
        error |-> WrapError("Fetch failed: ", <<"JSON.parse: unexpected character">>)]
  ELSE [ok |-> TRUE, value |-> ParseJson(o.body)]

\* the validation without the trim
LeagueIdFalsy(id) == ~Truthy(id)

\* executeEspnFetch, validation: !leagueId || leagueId.trim() === ''
LeagueIdMissing(id) == ~Truthy(id) \/ Trim(id) = <<>>

\* tabs.length > 1 taken as the test for a missing tab
NoActiveTabNever(tabs) == Len(tabs) > 1

\* executeEspnFetch: tabs.length === 0
NoActiveTab(tabs) == Len(tabs) = 0

\* executeEspnFetch, catch block: the rejection of a failure inside try
FetchFailure(msg) ==
  [ok |-> FALSE, error |-> WrapError("Failed to execute ESPN API fetch: ", msg)]

\* ---------------------------------------------------- espnMessageHandler
\* the envelope with a generic text in place of the error's message
ResponseEnvelopeGenericError(result, id, clock) ==
  IF result.ok
  THEN [type |-> "ESPN_LEAGUE_DATA_SUCCESS", data |-> result.value,
        leagueId |-> id, timestamp |-> clock]
  ELSE [type |-> "ESPN_LEAGUE_DATA_ERROR", error |-> <<"Fetch failed">>,
        leagueId |-> id, timestamp |-> clock]

\* handleEspnFetchRequest: the envelope for a settled executeEspnFetch
ResponseEnvelope(result, id, clock) ==
  IF result.ok
  THEN [type |-> "ESPN_LEAGUE_DATA_SUCCESS", data |-> result.value,
        leagueId |-> id, timestamp |-> clock]
  ELSE [type |-> "ESPN_LEAGUE_DATA_ERROR", error |-> result.error,
        leagueId |-> id, timestamp |-> clock]

\* handleEspnFetchRequest: null for a message of another type, else the
\* envelope for the way executeEspnFetch(message.leagueId) settled
HandleEspnFetchRequest(m, result, clock) ==
  IF m.type # "ESPN_FETCH_LEAGUE_DATA" THEN Null
  ELSE ResponseEnvelope(result, m.leagueId, clock)

\* registerEspnMessageHandler
RegisterEspnMessageHandler(ls) == ls \cup {"espn"}

\* a background script that registers the handler as the README of the
\* module prescribes: background.js followed by registerEspnMessageHandler()
BackgroundLoadWithEspn ==
  /\ bgListeners = {}
  /\ bgListeners' = RegisterEspnMessageHandler({"background"})
  /\ UNCHANGED <<msgVars, espnVars>>

\* a runtime message to the background: from is the sender, prev the status
\* of the component's mutation when it sent the message, latest tells that
\* no later mutate() of the component has replaced it, ret what the ESPN
\* listener returned, fetchCalls / queryCalls / execCalls count the calls of
\* executeEspnFetch, tabs.query and tabs.executeScript, http is the status
\* the page script saw (0: none), fetched how executeEspnFetch settled,
\* responses the invocations of sendResponse
NewEspnRequest(from, id) ==
  [type |-> "ESPN_FETCH_LEAGUE_DATA", from |-> from, prev |-> "idle",
   latest |-> TRUE, leagueId |-> id, stage |-> "bus", ret |-> "none", tabs |-> Undefined,
   fetchCalls |-> 0, queryCalls |-> 0, execCalls |-> 0, code |-> NoReply,
   http |-> 0, fetched |-> NoReply, responses |-> 0, reply |-> NoReply]

\* the listener answering every message
EspnListenerAnyType(m) == [ret |-> "true", handles |-> TRUE]

\* the listener of registerEspnMessageHandler: its return value, and
\* whether it calls handleEspnFetchRequest and passes the result to
\* sendResponse
EspnListener(m) ==
  IF m.type = "ESPN_FETCH_LEAGUE_DATA"
  THEN [ret |-> "true", handles |-> TRUE]
  ELSE [ret |-> "undefined", handles |-> FALSE]

\* executeEspnFetch has settled with result and handleEspnFetchRequest
\* resolved; the listener passes the envelope to sendResponse
Respond(r, result) ==
  [r EXCEPT !.stage = "replied", !.responses = @ + 1, !.fetched = result,
            !.reply = HandleEspnFetchRequest(r, result, now)]

\* the background receives request i: every registered listener runs. The
\* listener of background.js returns true. The ESPN listener calls
\* handleEspnFetchRequest, which calls executeEspnFetch: a missing league id
\* rejects at once, else tabs.query is called.
BackgroundReceive(i) ==
  /\ ereqs[i].stage = "bus"
  /\ bgListeners # {}
  /\ LET r == ereqs[i] IN
     ereqs' = [ereqs EXCEPT ![i] =
       IF "espn" \notin bgListeners
       THEN [r EXCEPT !.stage = "open",
                      !.responses = BackgroundResponses(r)]
       ELSE LET l == EspnListener(r)
                r1 == [r EXCEPT !.ret = l.ret] IN
       IF ~l.handles
       THEN [r1 EXCEPT !.stage = "open",
                       !.responses = BackgroundResponses(r)]
       ELSE LET r2 == [r1 EXCEPT !.fetchCalls = @ + 1] IN
       IF LeagueIdMissing(r.leagueId)
       THEN Respond(r2, [ok |-> FALSE, error |-> <<"League ID is required">>])
       ELSE [r2 EXCEPT !.stage = "query", !.queryCalls = @ + 1]]
  /\ UNCHANGED <<bgListeners, msgVars, leagueId, leagueData, espnStatus,
                 espnError, espnFormLoading>>

\* tabs.query resolves in executeEspnFetch: no tab throws inside try, else
\* the fetch code for the league's URL is passed to tabs.executeScript
EspnTabsResolve(i, tabs) ==
  /\ ereqs[i].stage = "query"
  /\ LET r == [ereqs[i] EXCEPT !.tabs = tabs] IN
     ereqs' = [ereqs EXCEPT ![i] =
       IF NoActiveTab(tabs)
       THEN Respond(r, FetchFailure(<<"No active tab found">>))
       ELSE [r EXCEPT !.stage = "exec", !.execCalls = @ + 1,
                      !.code = GenerateFetchCode(BuildEspnApiUrl(r.leagueId))]]
  /\ UNCHANGED <<bgListeners, msgVars, leagueId, leagueData, espnStatus,
                 espnError, espnFormLoading>>

\* executeEspnFetch starting over with tabs.query after a failed script
ExecuteScriptSettlesRetrying(i, o) ==
  /\ ereqs[i].stage = "exec"
  /\ LET r == ereqs[i]
         script == IF r.tabs[1] # ContentTab
                   THEN [ok |-> FALSE,
                         error |-> <<"Missing host permission for the tab">>]
                   ELSE PageScript(o) IN
     ereqs' = [ereqs EXCEPT ![i] =
       IF script.ok THEN Respond(r, script)
       ELSE [r EXCEPT !.stage = "query", !.queryCalls = @ + 1]]
  /\ UNCHANGED <<bgListeners, msgVars, leagueId, leagueData, espnStatus,
                 espnError, espnFormLoading>>

\* tabs.executeScript settles with the promise of the page script (or
\* rejects because the code cannot be injected into the tab), and
\* executeEspnFetch returns results[0] or rethrows; the handler responds
ExecuteScriptSettles(i, o) ==
  /\ ereqs[i].stage = "exec"
  /\ LET r == ereqs[i]
         script == IF r.tabs[1] # ContentTab
                   THEN [ok |-> FALSE,
                         error |-> <<"Missing host permission for the tab">>]
                   ELSE PageScript(o)
         result == IF script.ok THEN script ELSE FetchFailure(script.error) IN
     ereqs' = [ereqs EXCEPT ![i] =
       Respond([r EXCEPT !.http = IF r.tabs[1] = ContentTab THEN o.status
                                  ELSE 0],
               result)]
  /\ UNCHANGED <<bgListeners, msgVars, leagueId, leagueData, espnStatus,
                 espnError, espnFormLoading>>

\* ------------------------------------------------- popup: EspnLeagueData
DefaultLeagueId == <<"59986587">>
LeagueIdInputs == Strings \cup {DefaultLeagueId}

\* the input and the button are disabled while the mutation is pending, as
\* of the latest render
EspnFormDisabled == espnFormLoading

\* EspnLeagueData renders again after the status of its mutation has changed
EspnRerender ==
  /\ espnFormLoading # (espnStatus = "pending")
  /\ espnFormLoading' = (espnStatus = "pending")
  /\ UNCHANGED <<bgListeners, msgVars, leagueId, leagueData, espnStatus,
                 espnError, ereqs>>

\* the requests of the component that have not been answered yet
PendingFetches(rs) == {i \in DOMAIN rs : rs[i].from = "popup"}

\* mutate() makes the new mutation the one the observer follows
Superseded(rs) ==
  [i \in DOMAIN rs |->
     IF rs[i].from = "popup" THEN [rs[i] EXCEPT !.latest = FALSE] ELSE rs[i]]

\* onChange of the league id input
TypeLeagueId(s) ==
  /\ ~EspnFormDisabled
  /\ leagueId' = s
  /\ UNCHANGED <<bgListeners, msgVars, leagueData, espnStatus, espnError,
                 ereqs, espnFormLoading>>

\* handleSubmit: if (leagueId.trim())
SubmitAllowed(id) == Truthy(Trim(id))

\* handleSubmit -> mutation.mutate -> fetchEspnLeagueData:
\* runtime.sendMessage({type: ESPN_FETCH_LEAGUE_DATA, leagueId})
HandleSubmit(render) ==
  /\ ~EspnFormDisabled
  /\ Cardinality(PendingFetches(ereqs)) < MaxFetches
  /\ IF SubmitAllowed(leagueId)
     THEN /\ ereqs' = Append(Superseded(ereqs),
                             [NewEspnRequest("popup", leagueId)
                                EXCEPT !.prev = espnStatus])
          /\ espnStatus' = "pending"
          /\ espnError' = <<>>
     ELSE UNCHANGED <<ereqs, espnStatus, espnError>>
  /\ espnFormLoading' = IF render THEN espnStatus' = "pending"
                        ELSE espnFormLoading
  /\ UNCHANGED <<bgListeners, msgVars, leagueId, leagueData>>

\* a submit event that arrives before the component has rendered the
\* outcome of the one before: a second click or a scripted submit in the
\* same task
SubmitLeagueId == HandleSubmit(FALSE)

\* a submit by hand: the component renders again before the next event
SubmitLeagueIdRendered == HandleSubmit(TRUE)

\* league ids the component never sends: missing, empty, only whitespace
BlankIds == {Undefined} \cup {s \in Strings : \A k \in 1..Len(s) : s[k] = " "}

\* another extension context sends the request, without a usable league id
OtherSend(id) ==
  /\ Cardinality({i \in DOMAIN ereqs : ereqs[i].from = "other"}) < MaxOther
  /\ ereqs' = Append(ereqs, NewEspnRequest("other", id))
  /\ UNCHANGED <<bgListeners, msgVars, leagueId, leagueData, espnStatus,
                 espnError, espnFormLoading>>

\* another extension context sends a runtime message of another type
OtherBackgroundMessage(t) ==
  /\ Cardinality({i \in DOMAIN ereqs : ereqs[i].from = "other"}) < MaxOther
  /\ ereqs' = Append(ereqs, [NewEspnRequest("other", Undefined)
                               EXCEPT !.type = t])
  /\ UNCHANGED <<bgListeners, msgVars, leagueId, leagueData, espnStatus,
                 espnError, espnFormLoading>>

\* the component shows the error message / the league-data block
ShowsError == espnStatus = "error"
ShowsData == espnStatus = "success" /\ leagueData \notin {Null, Undefined}

\* the response reaches the sender and the request is over.
\* fetchEspnLeagueData throws
\* Error(response.error) for an error envelope, else returns response.data
\* and onSuccess stores it. The status and the error of the component are
\* those of its latest mutation; onSuccess runs for every mutation.
EspnReplyArrives(i) ==
  /\ ereqs[i].stage = "replied"
  /\ ereqs' = Remove(ereqs, i)
  /\ IF ereqs[i].from # "popup"
     THEN UNCHANGED <<leagueData, espnStatus, espnError>>
     ELSE IF ereqs[i].reply.type = "ESPN_LEAGUE_DATA_ERROR"
     THEN /\ espnStatus' = IF ereqs[i].latest THEN "error" ELSE espnStatus
          /\ espnError' = IF ereqs[i].latest THEN ereqs[i].reply.error
                          ELSE espnError
          /\ UNCHANGED leagueData
     ELSE /\ espnStatus' = IF ereqs[i].latest THEN "success" ELSE espnStatus
          /\ leagueData' = ereqs[i].reply.data
          /\ UNCHANGED espnError
  /\ UNCHANGED <<bgListeners, msgVars, leagueId, espnFormLoading>>

\* ------------------------------------------------------------------ Spec
Init ==
  /\ bgListeners = {}
  /\ mounted = FALSE
  /\ gen = 0
  /\ popupListeners = {}
  /\ listener = 0
  /\ messages = <<>>
  /\ received = <<>>
  /\ message = <<>>
  /\ formLoading = FALSE
  /\ lastSubmit = NoSubmit
  /\ sendStatus = "idle"
  /\ piStatus = "pending"
  /\ pageInfo = Undefined
  /\ reqs = <<>>
  /\ sends = 0
  /\ notifQ = <<>>
  /\ notifSent = 0
  /\ notifResponses = 0
  /\ undelivered = 0
  /\ ignored = 0
  /\ now = 0
  /\ page \in [head : BOOLEAN, body : BOOLEAN, style : {FALSE},
               shown : {0}, leaving : {0}]
  /\ leagueId = DefaultLeagueId
  /\ leagueData = Null
  /\ espnStatus = "idle"
  /\ espnFormLoading = FALSE
  /\ espnError = <<>>
  /\ ereqs = <<>>

\* texts sent in the request/reply flows: two payloads, one with leading
\* whitespace
SendTexts == {<<"a">>, <<" ", "a">>}

\* the request/reply flows between the popup and the content script
Next ==
  \/ Mount
  \/ Unmount
  \/ \E s \in SendTexts : TypeMessage(s)
  \/ SubmitMessage
  \/ Rerender
  \/ \E i \in DOMAIN reqs : \E tabs \in TabResults : TabsQueryResolve(i, tabs)
  \/ \E i \in DOMAIN reqs : TransportError(i)
  \/ \E i \in DOMAIN reqs : ReplyArrives(i)
  \/ \E i \in DOMAIN reqs : \E ok \in BOOLEAN : HostNoResponse(i, ok)
  \/ \E i \in DOMAIN reqs : ContentReceive(i)
  \/ DivTimeout
  \/ DivRemove

Spec == Init /\ [][Next]_vars

\* the notification flow from the content script to the popup
NextNotify ==
  \/ BackgroundLoad
  \/ Mount
  \/ Unmount
  \/ \E d \in ClickData : Click(d)
  \/ \E t \in OtherTypes : OtherMessage(t)
  \/ BareNotification
  \/ DeliverNotification
  \/ Tick

SpecNotify == Init /\ [][NextNotify]_vars

\* the message form with every text of the input
NextForm ==
  \/ Mount
  \/ Unmount
  \/ \E s \in Strings : TypeMessage(s)
  \/ SubmitMessage
  \/ Rerender
  \/ \E i \in DOMAIN reqs : \E tabs \in {<<2>>} :
        TabsQueryResolve(i, tabs)
  \/ \E i \in DOMAIN reqs : TransportError(i)

SpecForm == Init /\ [][NextForm]_vars

\* the popup in a window without an active tab: tabs.query gives no tab
NextNoTab ==
  \/ Mount
  \/ Unmount
  \/ \E s \in Strings : TypeMessage(s)
  \/ SubmitMessage
  \/ Rerender
  \/ \E i \in DOMAIN reqs : TabsQueryResolve(i, <<>>)

SpecNoTab == Init /\ [][NextNoTab]_vars

\* the popup sending texts and fetching the page info while notifications
\* of the content script arrive
NextBoth ==
  \/ Mount
  \/ \E s \in {<<"a">>} : TypeMessage(s)
  \/ SubmitMessage
  \/ Rerender
  \/ \E i \in DOMAIN reqs : \E tabs \in TabResults : TabsQueryResolve(i, tabs)
  \/ \E i \in DOMAIN reqs : TransportError(i)
  \/ \E i \in DOMAIN reqs : ContentReceive(i)
  \/ \E i \in DOMAIN reqs : ReplyArrives(i)
  \/ \E i \in DOMAIN reqs : \E ok \in BOOLEAN : HostNoResponse(i, ok)
  \/ \E d \in {<<"Clicked: ", "DIV">>} : Click(d)
  \/ DeliverNotification

SpecBoth == Init /\ [][NextBoth]_vars

\* the requests of the popup with every result of tabs.query
NextTabs ==
  \/ Mount
  \/ \E s \in {<<"a">>} : TypeMessage(s)
  \/ SubmitMessage
  \/ Rerender
  \/ \E i \in DOMAIN reqs : \E tabs \in TabLists : TabsQueryResolve(i, tabs)
  \/ \E i \in DOMAIN reqs : TransportError(i)
  \/ \E i \in DOMAIN reqs : ContentReceive(i)
  \/ \E i \in DOMAIN reqs : ReplyArrives(i)

SpecTabs == Init /\ [][NextTabs]_vars

\* the notification flow with the popup of a development build
NextStrict ==
  \/ MountStrict
  \/ Unmount
  \/ \E d \in ClickData : Click(d)
  \/ DeliverNotification
  \/ Tick

SpecStrict == Init /\ [][NextStrict]_vars

\* the content script with tab messages of every sender
NextContent ==
  \/ Mount
  \/ \E s \in {<<"a">>} : TypeMessage(s)
  \/ SubmitMessage
  \/ Rerender
  \/ \E i \in DOMAIN reqs : \E tabs \in TabResults : TabsQueryResolve(i, tabs)
  \/ \E t \in UnknownTabTypes : OtherTabMessage(t)
  \/ \E i \in DOMAIN reqs : ContentReceive(i)
  \/ DivTimeout
  \/ DivRemove

SpecContent == Init /\ [][NextContent]_vars

\* the ESPN component against the background script as it is: background.js
\* does not register the ESPN handler
NextShipped ==
  \/ BackgroundLoad
  \/ \E s \in LeagueIdInputs : TypeLeagueId(s)
  \/ SubmitLeagueIdRendered
  \/ \E id \in BlankIds : OtherSend(id)
  \/ \E i \in DOMAIN ereqs : BackgroundReceive(i)

SpecShipped ==
  /\ Init
  /\ [][NextShipped]_vars
  /\ WF_vars(BackgroundLoad)
  /\ WF_vars(\E i \in DOMAIN ereqs : BackgroundReceive(i))

\* the ESPN fetch proxy with the handler registered in the background
NextEspn ==
  \/ BackgroundLoadWithEspn
  \/ \E s \in LeagueIdInputs : TypeLeagueId(s)
  \/ SubmitLeagueIdRendered
  \/ EspnRerender
  \/ \E id \in BlankIds : OtherSend(id)
  \/ \E t \in OtherBackgroundTypes : OtherBackgroundMessage(t)
  \/ \E i \in DOMAIN ereqs : BackgroundReceive(i)
  \/ \E i \in DOMAIN ereqs : \E tabs \in TabResults : EspnTabsResolve(i, tabs)
  \/ \E i \in DOMAIN ereqs : \E o \in FetchOutcomes : ExecuteScriptSettles(i, o)
  \/ \E i \in DOMAIN ereqs : EspnReplyArrives(i)

SpecEspn == Init /\ [][NextEspn]_vars

\* the form of the ESPN component with submits that do not wait for the
\* component to render
NextEspnForm ==
  \/ BackgroundLoadWithEspn
  \/ \E s \in {DefaultLeagueId, <<"a">>} : TypeLeagueId(s)
  \/ SubmitLeagueId
  \/ EspnRerender
  \/ \E i \in DOMAIN ereqs : BackgroundReceive(i)
  \/ \E i \in DOMAIN ereqs : EspnTabsResolve(i, <<ContentTab>>)
  \/ \E i \in DOMAIN ereqs :
       \E o \in {f \in FetchOutcomes : f.kind = "http" /\ f.body = "object"} :
         ExecuteScriptSettles(i, o)
  \/ \E i \in DOMAIN ereqs : EspnReplyArrives(i)

SpecEspnForm == Init /\ [][NextEspnForm]_vars

\* the send-text requests of the popup under way
PendingSends == {i \in DOMAIN reqs : reqs[i].type = "FROM_POPUP"}

\* ---------------------------------------------------------------- claims
\* the content-script listener has run on the envelope of request r
Handled(r) == r.stage \in {"replied", "threw", "open"}

\* C2: every send-text request carries its payload unmodified in a
\* FROM_POPUP envelope, and every envelope the content script has handled
\* got the reply {success: true, echo: payload}, so N requests give N
\* echoes.
C2_EchoRoundTrip ==
  \A i \in DOMAIN reqs :
    reqs[i].type = "FROM_POPUP" =>
      /\ reqs[i].stage = "sent" =>
           reqs[i].envelope = [type |-> "FROM_POPUP", data |-> reqs[i].data]
      /\ Handled(reqs[i]) =>
           reqs[i].reply = [success |-> TRUE, echo |-> reqs[i].data]

\* C3: after K FROM_CONTENT notifications received since mount the display
\* list has exactly K entries and their contents are the notifications' data
\* in reverse order of receipt, duplicates included.
C3_MostRecentFirst ==
  mounted =>
    /\ Len(messages) = Len(received)
    /\ \A k \in 1..Len(messages) :
         messages[k].content = received[Len(received) + 1 - k]

C3_Witness ==
  /\ mounted
  /\ Len(messages) >= 2
  /\ messages[1].content # messages[2].content
  /\ messages[1].content = received[Len(received)]

\* C4: once the popup is unmounted its listener is no longer registered,
\* and no notification delivered afterwards reaches the listener or changes
\* the display list.
C4_NoDeliveryAfterUnmount ==
  /\ [](~mounted => popupListeners = {})
  /\ [][(~mounted /\ ~mounted') =>
          (messages' = messages /\ received' = received)]_vars

C4_Witness ==
  /\ ~mounted
  /\ gen > 0
  /\ messages # <<>>
  /\ undelivered > 0

\* C11: a message whose type is not 'FROM_CONTENT' (a missing type
\* included) leaves the display list as it was when it is delivered to the
\* popup's listener, whatever the list holds, and the list never shows the
\* data of such a message.
C11_OtherTypesIgnored ==
  /\ [][(/\ notifQ # <<>>
          /\ Head(notifQ).type # "FROM_CONTENT"
          /\ notifQ' = Tail(notifQ)) => messages' = messages]_vars
  /\ [](\A k \in 1..Len(messages) :
          messages[k].content \in ClickData \cup {Undefined})

C11_Witness ==
  /\ mounted
  /\ messages # <<>>
  /\ ignored > 0
  /\ notifQ = <<>>

\* C24: a FROM_CONTENT message without a data field leaves the display list
\* as it was when it is delivered to the popup's listener, and no cell of
\* the table shows the text 'undefined'.
C24_BareNotificationIgnored ==
  /\ [][(/\ notifQ # <<>>
          /\ Head(notifQ).type = "FROM_CONTENT"
          /\ Head(notifQ).data = Undefined
          /\ notifQ' = Tail(notifQ)) => messages' = messages]_vars
  /\ [](\A k \in 1..Len(messages) : CellText(messages[k]) # Undefined)

\* the part of C24 about the rendering: no cell shows 'undefined'
C24_NoUndefinedText ==
  \A k \in 1..Len(messages) : CellText(messages[k]) # Undefined

\* C25: no two entries of the display list have the same id, and an entry
\* received later (nearer the head of the list) never has a smaller id than
\* one received earlier.
C25_IdsUniqueAndMonotonic ==
  \A j \in 1..Len(messages) : \A k \in 1..Len(messages) :
    j < k => /\ messages[j].id # messages[k].id
             /\ messages[j].id >= messages[k].id

\* the part of C25 about the order of the ids
C25_IdsMonotonic ==
  \A j \in 1..Len(messages) : \A k \in 1..Len(messages) :
    j < k => messages[j].id >= messages[k].id

\* C26: every change of the display list is the FROM_CONTENT listener putting
\* the delivered notification at the head of the list; submitting a text,
\* the settling of a send or of the page-info fetch (fulfilled or rejected)
\* and the echo reply leave the list as it was, so a sent text is never the
\* content of an entry.
C26_OnlyListenerChangesList ==
  /\ [][messages' # messages =>
          /\ mounted
          /\ notifQ # <<>>
          /\ Head(notifQ).type = "FROM_CONTENT"
          /\ notifQ' = Tail(notifQ)
          /\ messages' = MessageListener(messages, Head(notifQ), now)
          /\ reqs' = reqs
          /\ sendStatus' = sendStatus
          /\ piStatus' = piStatus]_vars
  /\ [][(reqs' # reqs \/ sendStatus' # sendStatus \/ piStatus' # piStatus
            \/ pageInfo' # pageInfo \/ lastSubmit' # lastSubmit)
          => messages' = messages]_vars
  /\ [](\A k \in 1..Len(messages) : messages[k].content \notin Strings)

C26_Witness ==
  /\ messages # <<>>
  /\ sends = 2
  /\ sendStatus = "success"
  /\ piStatus = "success"
  /\ PendingSends = {}

C26_WitnessFailed ==
  /\ messages # <<>>
  /\ sends >= 1
  /\ sendStatus = "error"
  /\ piStatus = "error"

\* the requests of the popup: page-info fetches and text sends
PopupRequests ==
  {i \in DOMAIN reqs : reqs[i].type \in {"GET_PAGE_INFO", "FROM_POPUP"}}

\* C27: every request of the popup makes one tabs.query of its own and at
\* most one tabs.sendMessage, which comes after the query has resolved and
\* goes to the first tab of that request's own query result, whatever tab
\* other requests have used.
C27_OwnQueryFirstTab ==
  /\ [](\A i \in PopupRequests :
          /\ reqs[i].queryCalls = 1
          /\ reqs[i].sendCalls <= 1
          /\ reqs[i].stage = "query" => reqs[i].sendCalls = 0
          /\ reqs[i].sendCalls = 0 => reqs[i].to = 0
          /\ reqs[i].sendCalls = 1 =>
               /\ reqs[i].tabs # <<>>
               /\ reqs[i].to = reqs[i].tabs[1])
  /\ [][\A i \in PopupRequests :
          (/\ i \in DOMAIN reqs'
           /\ reqs[i].sendCalls = 0
           /\ reqs'[i].sendCalls = 1) => reqs[i].stage = "query"]_vars

C27_Witness ==
  \E i \in PopupRequests : \E j \in PopupRequests :
    /\ i < j
    /\ reqs[i].sendCalls = 1
    /\ reqs[j].sendCalls = 1
    /\ Len(reqs[i].tabs) = 2
    /\ reqs[i].to = reqs[i].tabs[1]
    /\ reqs[j].to = reqs[j].tabs[1]
    /\ reqs[i].to # reqs[j].to

\* C28: at every moment at most one listener of the popup is registered on
\* runtime.onMessage: an open popup has exactly the listener of its latest
\* effect run registered, a closed popup none; a mount ends with one newly
\* created listener registered; an unmount removes the registered listener;
\* and each FROM_CONTENT notification delivered to an open popup adds one
\* entry.
C28_AtMostOneListener ==
  /\ [](Cardinality(popupListeners) <= 1)
  /\ [](popupListeners = IF mounted THEN {listener} ELSE {})
  /\ [][(~mounted /\ mounted') =>
          /\ Cardinality(popupListeners') = 1
          /\ popupListeners' \cap popupListeners = {}
          /\ \A g \in 1..gen : \A run \in 1..2 :
               ListenerRef(g, run) \notin popupListeners']_vars
  /\ [][(mounted /\ ~mounted') =>
          /\ listener \in popupListeners
          /\ popupListeners' = popupListeners \ {listener}]_vars
  /\ [][(/\ mounted
          /\ notifQ # <<>>
          /\ Head(notifQ).type = "FROM_CONTENT"
          /\ notifQ' = Tail(notifQ)) =>
            Len(messages') = Len(messages) + 1]_vars

C28_WitnessStrict ==
  /\ mounted
  /\ gen = 2
  /\ popupListeners = {ListenerRef(2, 2)}
  /\ Len(messages) = 1

\* C28 for the popup of a production build (SpecNotify)
C28_WitnessPlain ==
  /\ mounted
  /\ gen = 2
  /\ popupListeners = {ListenerRef(2, 1)}
  /\ Len(messages) = 1

\* the content script has run its listener on the envelope of request r
ReceivedByContent(r) == r.stage \in {"replied", "threw", "open"}

\* C29: of two texts sent from the popup the one submitted first is handled
\* by the content script first: when the content script has handled a send,
\* no send submitted before it is still on its way to the content script.
C29_HandledInOrder ==
  \A i \in PendingSends : \A j \in PendingSends :
    (i < j /\ ReceivedByContent(reqs[j])) => i \notin InFlight(reqs)

\* the envelopes themselves are delivered in the order of the
\* tabs.sendMessage calls
C29_DeliveredInSendOrder ==
  [][\A i \in InFlight(reqs) : \A j \in InFlight(reqs) :
       (/\ reqs[i].ticket < reqs[j].ticket
        /\ j \in DOMAIN reqs'
        /\ ReceivedByContent(reqs'[j])
        /\ Len(reqs') = Len(reqs)) => ReceivedByContent(reqs'[i])]_vars

\* C30: the component never has two ESPN_FETCH_LEAGUE_DATA requests under
\* way at the same time.
C30_OneFetchInFlight ==
  Cardinality(PendingFetches(ereqs)) <= 1

\* a form rendered as disabled starts no request
C30_DisabledFormStartsNothing ==
  [][espnFormLoading =>
       Cardinality(PendingFetches(ereqs')) <=
         Cardinality(PendingFetches(ereqs))]_vars

\* C5: when tabs.query returned no tab, the pageInfo flow is in the error
\* state ('Unable to access page info'), not loading and not showing data,
\* and no GET_PAGE_INFO envelope was sent.
C5_ZeroTabsSettlesToError ==
  \A i \in DOMAIN reqs :
    (reqs[i].type = "GET_PAGE_INFO" /\ reqs[i].tabs = <<>> /\ Alive(i)) =>
      /\ reqs[i].stage = "failed"
      /\ reqs[i].sendCalls = 0
      /\ PageInfoView(IsLoading, pageInfo) = "error"

C5_Witness ==
  \E i \in DOMAIN reqs :
    /\ reqs[i].type = "GET_PAGE_INFO"
    /\ reqs[i].tabs = <<>>
    /\ Alive(i)
    /\ PageInfoView(IsLoading, pageInfo) = "error"

\* C9: every GET_PAGE_INFO or FROM_POPUP request the content-script
\* listener has handled had sendResponse invoked exactly once, and no
\* listener invokes sendResponse for a FROM_CONTENT notification.
C9_ReplyExactlyOnce ==
  /\ \A i \in DOMAIN reqs : Handled(reqs[i]) => reqs[i].calls = 1
  /\ notifResponses = 0

\* C12: a tab message whose type is neither 'FROM_POPUP' nor
\* 'GET_PAGE_INFO' (a missing type included) makes the content-script
\* listener change nothing on the page, invoke sendResponse zero times and
\* return without throwing.
C12_UnknownTypeNoEffect ==
  /\ [](\A i \in DOMAIN reqs :
          (/\ Handled(reqs[i])
           /\ reqs[i].envelope.type \notin {"FROM_POPUP", "GET_PAGE_INFO"}) =>
            /\ reqs[i].calls = 0
            /\ reqs[i].reply = NoReply
            /\ reqs[i].stage = "open")
  /\ [][\A i \in DOMAIN reqs :
          (/\ reqs[i].stage = "sent"
           /\ reqs[i].envelope.type \notin {"FROM_POPUP", "GET_PAGE_INFO"}
           /\ Len(reqs') = Len(reqs)
           /\ reqs'[i].stage # "sent") => page' = page]_vars

C12_Witness ==
  /\ page.shown > 0
  /\ \E i \in DOMAIN reqs :
       /\ reqs[i].envelope = [type |-> NoType, data |-> <<"Should not be logged">>]
       /\ reqs[i].stage = "open"

\* C14: when the popup has two send-text requests under way at once, both
\* were accepted and sent, each with its own payload, and once the content
\* script has handled both, each has its own reply {success: true, echo:
\* its payload}.
C14_ConcurrentSendsIndependent ==
  \A i, j \in DOMAIN reqs :
    (/\ i < j
     /\ reqs[i].type = "FROM_POPUP" /\ reqs[j].type = "FROM_POPUP"
     /\ reqs[i].gen = reqs[j].gen) =>
      /\ \A k \in {i, j} :
           reqs[k].sendCalls = 1 =>
             reqs[k].envelope = [type |-> "FROM_POPUP", data |-> reqs[k].data]
      /\ (Handled(reqs[i]) /\ Handled(reqs[j])) =>
           \A k \in {i, j} :
             /\ reqs[k].calls = 1
             /\ reqs[k].reply = [success |-> TRUE, echo |-> reqs[k].data]

\* the text is not empty and consists of whitespace only
WhitespaceOnly(text) == text # Undefined /\ text # <<>> /\ Trim(text) = <<>>

\* C17: a message of whitespace only that the user types and submits is
\* handed to onSend and travels unchanged as the data of a FROM_POPUP
\* envelope.
C17_WhitespaceOnlyIsSent ==
  WhitespaceOnly(lastSubmit.text) =>
    /\ lastSubmit.onSend = 1
    /\ \E i \in DOMAIN reqs :
         reqs[i].type = "FROM_POPUP" /\ reqs[i].data = lastSubmit.text

\* C18: handleSubmit on an empty input calls onSend zero times, starts no
\* request and changes nothing of the mutation, and no FROM_POPUP request
\* ever carries the empty text.
C18_EmptyIsNeverSent ==
  /\ [](lastSubmit.text = <<>> => lastSubmit.onSend = 0)
  /\ [](\A i \in DOMAIN reqs : reqs[i].type = "FROM_POPUP" => reqs[i].data # <<>>)
  /\ [][(message = <<>> /\ lastSubmit' # lastSubmit /\ lastSubmit'.text = <<>>) =>
         (reqs' = reqs /\ sends' = sends /\ sendStatus' = sendStatus)]_vars

C18_Witness ==
  /\ mounted
  /\ lastSubmit = [text |-> <<>>, onSend |-> 0]
  /\ sends > 0


\* C22: a failed page-info fetch is not attempted again (retry: false) and
\* the query stays in the error state while the popup is open; a text send
\* is never retried, so each request makes at most one tabs.sendMessage
\* call and a new send request only comes from a new mutate() call.
C22_NoRetry ==
  /\ [](\A i \in DOMAIN reqs :
          reqs[i].type = "GET_PAGE_INFO" =>
            /\ reqs[i].sendCalls <= 1
            /\ reqs[i].failures = IF reqs[i].stage = "failed" THEN 1 ELSE 0
            /\ (reqs[i].stage = "failed" /\ Alive(i)) => piStatus = "error")
  /\ [](\A i \in PendingSends :
          reqs[i].sendCalls <= 1 /\ reqs[i].failures = 0)
  /\ [][(mounted /\ mounted' /\ piStatus = "error") => piStatus' = "error"]_vars
  /\ [][Cardinality(PendingSends') > Cardinality(PendingSends) =>
          sends' = sends + 1]_vars

C22_Witness ==
  /\ piStatus = "error"
  /\ sendStatus = "error"
  /\ \E i \in DOMAIN reqs :
       /\ reqs[i].type = "GET_PAGE_INFO"
       /\ reqs[i].stage = "failed"
       /\ reqs[i].sendCalls = 1
       /\ Alive(i)

\* C23: when tabs.query gives no tab, a send-text request sends no envelope
\* to any tab; it ends with the mutation in the error state (the state
\* follows the latest send), the popup stays mounted with its list and the
\* page untouched, and a submit of a sendable text in the error state starts
\* a new request.
C23_NoTabFailsCleanly ==
  /\ [](\A i \in PendingSends :
          /\ reqs[i].stage = "query"
          /\ reqs[i].sendCalls = 0
          /\ reqs[i].envelope = NoReply)
  /\ [][\A i \in PendingSends :
          (reqs' = Remove(reqs, i) /\ mounted') =>
            /\ sendStatus' \in {"error", sendStatus}
            /\ Cardinality(PendingSends) = 1 => sendStatus' = "error"
            /\ messages' = messages
            /\ page' = page
            /\ popupListeners' = popupListeners]_vars
  /\ [][(/\ sendStatus = "error"
          /\ CanSend(message)
          /\ lastSubmit' # lastSubmit
          /\ lastSubmit'.text = message) =>
            /\ sends' = sends + 1
            /\ sendStatus' = "pending"
            /\ Cardinality(PendingSends') = Cardinality(PendingSends) + 1]_vars

C23_Witness ==
  /\ mounted
  /\ sendStatus = "error"
  /\ sends = 1
  /\ PendingSends = {}
  /\ ~formLoading
  /\ CanSend(message)

\* C10: a FROM_POPUP request the listener has handled is answered with
\* {success: true, echo: data} even when displayMessageOnPage failed.
C10_RepliesDespiteFailure ==
  \A i \in DOMAIN reqs :
    (reqs[i].type = "FROM_POPUP" /\ Handled(reqs[i])) =>
      /\ reqs[i].calls >= 1
      /\ reqs[i].reply = [success |-> TRUE, echo |-> reqs[i].envelope.data]

\* the piece occurs in the message
Contains(msg, piece) == \E k \in 1..Len(msg) : msg[k] = piece

\* how many times the piece occurs in the message
Count(msg, piece) == Cardinality({k \in 1..Len(msg) : msg[k] = piece})

\* C1: every ESPN_FETCH_LEAGUE_DATA request of the popup is eventually
\* answered with a success or an error reply, so the fetch leaves its
\* pending state.
C1_FetchAnswered ==
  (espnStatus = "pending") ~> (espnStatus \in {"success", "error"})

\* C6: the component sends no request for a blank league id, and a fetch
\* request with a missing, empty or whitespace-only league id is rejected with
\* 'League ID is required' without a call of tabs.query or
\* tabs.executeScript.
C6_BlankIdNoNetworkCall ==
  \A i \in DOMAIN ereqs :
    /\ ereqs[i].from = "popup" => ereqs[i].leagueId \notin BlankIds
    /\ (/\ ereqs[i].type = "ESPN_FETCH_LEAGUE_DATA"
        /\ ereqs[i].leagueId \in BlankIds
        /\ ereqs[i].stage # "bus") =>
         /\ ereqs[i].queryCalls = 0
         /\ ereqs[i].execCalls = 0
         /\ ereqs[i].stage = "replied"
         /\ ereqs[i].reply.type = "ESPN_LEAGUE_DATA_ERROR"
         /\ ereqs[i].reply.error = <<"League ID is required">>

C6_Witness ==
  \E i \in DOMAIN ereqs :
    /\ ereqs[i].leagueId = <<" ">>
    /\ ereqs[i].stage = "replied"
    /\ ereqs[i].reply.error = <<"League ID is required">>

\* the page script of request r saw a response with a non-2xx status
Non2xx(r) == r.http # 0 /\ ~(r.http >= 200 /\ r.http <= 299)

C13_NoTabIsDistinctFailure ==
  \A i \in DOMAIN ereqs :
    /\ ereqs[i].tabs = <<>> =>
         /\ ereqs[i].leagueId \notin BlankIds
         /\ ereqs[i].stage = "replied"
         /\ ereqs[i].execCalls = 0
         /\ ~ereqs[i].fetched.ok
         /\ ereqs[i].fetched.error =
              <<"Failed to execute ESPN API fetch: ", "No active tab found">>
         /\ ereqs[i].reply.type = "ESPN_LEAGUE_DATA_ERROR"
         /\ Contains(ereqs[i].reply.error, "No active tab found")
         /\ ~Contains(ereqs[i].reply.error, "Fetch failed: ")
    /\ (ereqs[i].stage = "replied" /\ ereqs[i].tabs # <<>>) =>
         (ereqs[i].fetched.ok \/
          ~Contains(ereqs[i].fetched.error, "No active tab found"))

C13_Witness ==
  \E i \in DOMAIN ereqs :
    /\ ereqs[i].from = "popup"
    /\ ereqs[i].tabs = <<>>
    /\ ereqs[i].stage = "replied"
    /\ ereqs[i].queryCalls = 1

\* C15: for every ESPN_FETCH_LEAGUE_DATA message whose executeEspnFetch has
\* settled, handleEspnFetchRequest has resolved to an envelope: a SUCCESS
\* envelope with the fetched data verbatim if executeEspnFetch resolved, an
\* ERROR envelope with the error's message if it rejected, in both cases with
\* the request's leagueId and a timestamp.
C15_HandlerAlwaysResolves ==
  \A i \in DOMAIN ereqs :
    (ereqs[i].type = "ESPN_FETCH_LEAGUE_DATA" /\ ereqs[i].fetched # NoReply) =>
      /\ ereqs[i].stage = "replied"
      /\ ereqs[i].reply.leagueId = ereqs[i].leagueId
      /\ "timestamp" \in DOMAIN ereqs[i].reply
      /\ IF ereqs[i].fetched.ok
         THEN /\ ereqs[i].reply.type = "ESPN_LEAGUE_DATA_SUCCESS"
              /\ ereqs[i].reply.data = ereqs[i].fetched.value
              /\ "error" \notin DOMAIN ereqs[i].reply
         ELSE /\ ereqs[i].reply.type = "ESPN_LEAGUE_DATA_ERROR"
              /\ ereqs[i].reply.error = ereqs[i].fetched.error
              /\ "data" \notin DOMAIN ereqs[i].reply

C15_Witness ==
  \E i, j \in DOMAIN ereqs :
    /\ ereqs[i].reply # NoReply /\ ereqs[j].reply # NoReply
    /\ ereqs[i].reply.type = "ESPN_LEAGUE_DATA_SUCCESS"
    /\ ereqs[i].leagueId = <<" ", "a">>
    /\ ereqs[j].reply.type = "ESPN_LEAGUE_DATA_ERROR"
    /\ ereqs[j].leagueId = Undefined

\* C16: for an ESPN_FETCH_LEAGUE_DATA message the registered listener
\* returns true, calls executeEspnFetch once and invokes sendResponse once
\* when the fetch has settled, with success or failure, and never twice; for
\* a message of another type it returns undefined, calls neither
\* sendResponse nor executeEspnFetch, and handleEspnFetchRequest gives null.
C16_ListenerRepliesOncePerFetch ==
  /\ \A i \in DOMAIN ereqs :
       ereqs[i].stage # "bus" =>
         IF ereqs[i].type = "ESPN_FETCH_LEAGUE_DATA"
         THEN /\ ereqs[i].ret = "true"
              /\ ereqs[i].fetchCalls = 1
              /\ ereqs[i].responses = IF ereqs[i].fetched = NoReply THEN 0 ELSE 1
         ELSE /\ ereqs[i].ret = "undefined"
              /\ ereqs[i].responses = 0
              /\ ereqs[i].fetchCalls = 0
              /\ ereqs[i].queryCalls = 0
              /\ ereqs[i].execCalls = 0
              /\ ereqs[i].reply = NoReply
  /\ \A t \in OtherBackgroundTypes :
       HandleEspnFetchRequest([type |-> t, leagueId |-> DefaultLeagueId],
                              [ok |-> TRUE, value |-> LeagueJson], now) = Null

C16_Witness ==
  \E i, j \in DOMAIN ereqs :
    /\ ereqs[i].type = NoType
    /\ ereqs[i].stage = "open"
    /\ ereqs[j].from = "popup"
    /\ ereqs[j].stage = "replied"
    /\ ereqs[j].reply.type = "ESPN_LEAGUE_DATA_ERROR"

\* C19: every reply to a fetch of the component ends in a visible state: an
\* ESPN_LEAGUE_DATA_ERROR reply gives the error state showing the reply's
\* error text, an ESPN_LEAGUE_DATA_SUCCESS reply gives the success state
\* showing the reply's data, and the error message and the league-data block
\* are never shown together, also when a failure follows a success.
C19_FetchEndsVisible ==
  /\ [][\A i \in DOMAIN ereqs :
          (/\ ereqs[i].from = "popup"
           /\ ereqs[i].stage = "replied"
           /\ ereqs' = Remove(ereqs, i)) =>
            IF ereqs[i].reply.type = "ESPN_LEAGUE_DATA_ERROR"
            THEN /\ espnStatus' = "error"
                 /\ ShowsError'
                 /\ espnError' = ereqs[i].reply.error
            ELSE /\ espnStatus' = "success"
                 /\ ShowsData'
                 /\ leagueData' = ereqs[i].reply.data]_vars
  /\ [](~(ShowsError /\ ShowsData))
  /\ [](espnStatus \in {"success", "error"} => (ShowsError \/ ShowsData))

\* C20: in the error state the form accepts a submit, and when the request
\* submitted from the error state is answered with ESPN_LEAGUE_DATA_SUCCESS
\* the component is in the success state, shows the reply's data and shows
\* no error.
C20_RefetchAfterError ==
  /\ [][(espnStatus = "error" /\ espnFormLoading' # espnFormLoading) =>
          ~EspnFormDisabled']_vars
  /\ [](\A i \in DOMAIN ereqs :
          (ereqs[i].from = "popup" /\ ereqs[i].prev = "error") =>
            (espnStatus = "pending" /\ ~ShowsError))
  /\ [][\A i \in DOMAIN ereqs :
          (/\ ereqs[i].from = "popup"
           /\ ereqs[i].prev = "error"
           /\ ereqs[i].stage = "replied"
           /\ ereqs[i].reply.type = "ESPN_LEAGUE_DATA_SUCCESS"
           /\ ereqs' = Remove(ereqs, i)) =>
            /\ espnStatus' = "success"
            /\ leagueData' = ereqs[i].reply.data
            /\ ShowsData'
            /\ ~ShowsError']_vars

\* C21: for one ESPN_FETCH_LEAGUE_DATA request handleEspnFetchRequest
\* calls executeEspnFetch once, which calls tabs.query at most once and
\* tabs.executeScript at most once; a failed fetch has been answered at
\* once, and an answered request makes no further call.
C21_SingleAttempt ==
  /\ [](\A i \in DOMAIN ereqs :
          ereqs[i].type = "ESPN_FETCH_LEAGUE_DATA" =>
            /\ ereqs[i].fetchCalls = IF ereqs[i].stage = "bus" THEN 0 ELSE 1
            /\ ereqs[i].queryCalls <= 1
            /\ ereqs[i].execCalls <= ereqs[i].queryCalls
            /\ (ereqs[i].stage = "query" => ereqs[i].execCalls = 0)
            /\ (ereqs[i].fetched # NoReply => ereqs[i].stage = "replied"))
  /\ [][\A i \in DOMAIN ereqs :
          (ereqs[i].stage = "replied" /\ Len(ereqs') = Len(ereqs)) =>
            ereqs'[i] = ereqs[i]]_vars

C21_Witness ==
  \E i \in DOMAIN ereqs :
    /\ ereqs[i].stage = "replied"
    /\ ereqs[i].http = 500
    /\ ereqs[i].queryCalls = 1
    /\ ereqs[i].execCalls = 1
    /\ ~ereqs[i].fetched.ok

\* C8: the URL in the code passed to tabs.executeScript is the fixed
\* template followed by the request's league id verbatim.
C8_UrlIsTemplatePlusId ==
  \A i \in DOMAIN ereqs :
    ereqs[i].execCalls > 0 =>
      ereqs[i].code.url =
        "https://lm-api-reads.fantasy.espn.com/apis/v3/games/ffl/seasons/2025/segments/0/leagues/"
          \o Str(ereqs[i].leagueId)

C8_Witness ==
  \E i \in DOMAIN ereqs :
    /\ ereqs[i].stage = "exec"
    /\ ereqs[i].leagueId = <<" ", "a">>
    /\ ereqs[i].code.url =
         "https://lm-api-reads.fantasy.espn.com/apis/v3/games/ffl/seasons/2025/segments/0/leagues/ a"

====
